---------------------------- MODULE Spec2Model ----------------------------
(***************************************************************************)
(* Backtesting of three long-only strategies (ATR breakout, SMA crossover, *)
(* VWAP reversion).  Each strategy object computes entry/exit signal       *)
(* matrices from the bar table (generate_signals), hands them to           *)
(* vbt.Portfolio.from_signals(close, entries, exits, init_cash=10,         *)
(* fees=0.001, slippage=0.0011) (run_backtest) and reduces the portfolio   *)
(* statistics to five numbers (get_metrics).                               *)
(*                                                                         *)
(* from_signals is modelled by the behaviour the call selects: every       *)
(* column is its own group with its own init_cash, orders are long-only,   *)
(* size is "all cash" on entry and "whole position" on exit, no            *)
(* accumulation, a bar whose entry and exit signals are both set is        *)
(* ignored, and a column's bars are processed in time order.               *)
(***************************************************************************)
EXTENDS Integers, Sequences, FiniteSets, TLC

(***************************************************************************)
(* Exact arithmetic.  The engine computes prices, sizes, fees and cash in  *)
(* floating point; the model computes the same expressions over exact      *)
(* rationals.  A natural number is a little-endian sequence of limbs in    *)
(* base Base (no leading zero limb, zero is the empty sequence), so that   *)
(* products of prices and rates do not leave the range of the integers.    *)
(***************************************************************************)
Base == 10000

RECURSIVE BStrip(_)
BStrip(a) ==
    IF a = <<>> THEN <<>>
    ELSE IF a[Len(a)] = 0 THEN BStrip(SubSeq(a, 1, Len(a) - 1))
    ELSE a

RECURSIVE BFromInt(_)
BFromInt(k) == IF k = 0 THEN <<>> ELSE <<k % Base>> \o BFromInt(k \div Base)

BRest(a) == IF a = <<>> THEN <<>> ELSE Tail(a)
BLow(a) == IF a = <<>> THEN 0 ELSE Head(a)

RECURSIVE BAddC(_, _, _)
BAddC(a, b, c) ==
    IF a = <<>> /\ b = <<>> THEN (IF c = 0 THEN <<>> ELSE <<c>>)
    ELSE LET s == BLow(a) + BLow(b) + c
         IN  <<s % Base>> \o BAddC(BRest(a), BRest(b), s \div Base)

BAdd(a, b) == BAddC(a, b, 0)

\* a - b for a >= b
RECURSIVE BSubC(_, _, _)
BSubC(a, b, c) ==
    IF a = <<>> THEN <<>>
    ELSE LET s == BLow(a) - BLow(b) - c
         IN  IF s < 0 THEN <<s + Base>> \o BSubC(BRest(a), BRest(b), 1)
             ELSE <<s>> \o BSubC(BRest(a), BRest(b), 0)

BSub(a, b) == BStrip(BSubC(a, b, 0))

RECURSIVE BMulLimb(_, _, _)
BMulLimb(a, d, c) ==
    IF a = <<>> THEN (IF c = 0 THEN <<>> ELSE <<c>>)
    ELSE LET p == Head(a) * d + c
         IN  <<p % Base>> \o BMulLimb(Tail(a), d, p \div Base)

BShift(a) == IF a = <<>> THEN <<>> ELSE <<0>> \o a

RECURSIVE BMul(_, _)
BMul(a, b) ==
    IF a = <<>> \/ b = <<>> THEN <<>>
    ELSE BAdd(BStrip(BMulLimb(a, Head(b), 0)), BShift(BMul(a, Tail(b))))

\* -1, 0, 1 as a < b, a = b, a > b
RECURSIVE BCmpTop(_, _, _)
BCmpTop(a, b, i) ==
    IF i = 0 THEN 0
    ELSE IF a[i] < b[i] THEN -1
    ELSE IF a[i] > b[i] THEN 1
    ELSE BCmpTop(a, b, i - 1)

BCmp(a, b) ==
    IF Len(a) < Len(b) THEN -1
    ELSE IF Len(a) > Len(b) THEN 1
    ELSE BCmpTop(a, b, Len(a))

RECURSIVE BModSmall(_, _, _, _)
\* the remainder of the top i limbs of a, preceded by remainder r, modulo p < Base
BModSmall(a, i, p, r) ==
    IF i = 0 THEN r ELSE BModSmall(a, i - 1, p, (r * Base + a[i]) % p)

RECURSIVE BDivSmall(_, _, _, _)
\* the quotient limbs (not stripped) of the same division
BDivSmall(a, i, p, r) ==
    IF i = 0 THEN <<>>
    ELSE LET x == r * Base + a[i]
         IN  BDivSmall(a, i - 1, p, x % p) \o <<x \div p>>

Divides(p, a) == BModSmall(a, Len(a), p, 0) = 0
BQuot(a, p) == BStrip(BDivSmall(a, Len(a), p, 0))

(***************************************************************************)
(* A rational is [s, n, d]: sign s in {-1, 0, 1}, magnitude n/d, d > 0.    *)
(* Values are compared with QCmp (cross-multiplication), never with =.     *)
(* Results are reduced by the prime factors of the closes and rates (the   *)
(* only primes a denominator built from them can hold); a fraction not in  *)
(* lowest terms is still exact.                                            *)
(***************************************************************************)
SmallPrimes == <<2, 3, 5, 7, 11, 13, 19, 23, 37, 47, 71, 1427>>

RECURSIVE ReduceBy(_, _, _)
ReduceBy(n, d, k) ==
    IF k > Len(SmallPrimes) THEN <<n, d>>
    ELSE IF Divides(SmallPrimes[k], n) /\ Divides(SmallPrimes[k], d)
           THEN ReduceBy(BQuot(n, SmallPrimes[k]), BQuot(d, SmallPrimes[k]), k)
    ELSE ReduceBy(n, d, k + 1)

QNorm(x) ==
    IF x.s = 0 THEN [s |-> 0, n |-> <<>>, d |-> <<1>>]
    ELSE LET r == ReduceBy(x.n, x.d, 1) IN [s |-> x.s, n |-> r[1], d |-> r[2]]

QZero == [s |-> 0, n |-> <<>>, d |-> <<1>>]
QFrac(a, b) == QNorm([s |-> IF a = 0 THEN 0 ELSE 1, n |-> BFromInt(a), d |-> BFromInt(b)])
QInt(a) == QFrac(a, 1)
QNeg(x) == [x EXCEPT !.s = 0 - x.s]
QMul(x, y) ==
    IF x.s = 0 \/ y.s = 0 THEN QZero
    ELSE QNorm([s |-> x.s * y.s, n |-> BMul(x.n, y.n), d |-> BMul(x.d, y.d)])
QDiv(x, y) ==
    IF x.s = 0 THEN QZero
    ELSE QNorm([s |-> x.s * y.s, n |-> BMul(x.n, y.d), d |-> BMul(x.d, y.n)])
QAdd(x, y) ==
    IF x.s = 0 THEN y
    ELSE IF y.s = 0 THEN x
    ELSE LET a == BMul(x.n, y.d)
             b == BMul(y.n, x.d)
             d == BMul(x.d, y.d)
         IN  IF x.s = y.s THEN QNorm([s |-> x.s, n |-> BAdd(a, b), d |-> d])
             ELSE LET c == BCmp(a, b)
                  IN  IF c = 0 THEN QZero
                      ELSE IF c > 0 THEN QNorm([s |-> x.s, n |-> BSub(a, b), d |-> d])
                      ELSE QNorm([s |-> y.s, n |-> BSub(b, a), d |-> d])
QSub(x, y) == QAdd(x, QNeg(y))
\* -1, 0, 1 as x < y, x = y, x > y
QCmp(x, y) ==
    IF x.s # y.s THEN (IF x.s < y.s THEN -1 ELSE 1)
    ELSE IF x.s = 0 THEN 0
    ELSE x.s * BCmp(BMul(x.n, y.d), BMul(y.n, x.d))
QEq(x, y) == QCmp(x, y) = 0
QLt(x, y) == QCmp(x, y) < 0
QLe(x, y) == QCmp(x, y) <= 0

(***************************************************************************)
(* Bounds and program constants.                                           *)
(***************************************************************************)
NumBars == 5
Bars == 1..NumBars

Symbols == {"BTC", "ETH"}
\* unstack() sorts the symbol level: columns are in this order
ColumnOrder == <<"BTC", "ETH">>

\* a missing (timestamp, symbol) row unstacks to NaN; prices are positive
NaN == 0

init_cash == 10
FeesNum == 1
FeesDen == 1000
SlipNum == 11
SlipDen == 10000
Fees == QFrac(FeesNum, FeesDen)
Slippage == QFrac(SlipNum, SlipDen)
QOne == QInt(1)
QHundred == QInt(100)

atr_period == 14
sma_period == 50
ThresholdNum == 1
ThresholdDen == 100

\* constructor arguments tried
LookbackChoices == {1, 2}
HoldingChoices == {1, 2}
WindowChoices == {<<1, 2>>, <<1, 3>>}
ExcludeChoices == {{}, {"ETH"}}

(***************************************************************************)
(* Bar tables.  A column of closes is one of a few named series; "late" is *)
(* a symbol listed on the last bar only (missing rows before it).          *)
(***************************************************************************)
SeriesNames == {"rising", "scenario", "zigzag", "flat", "dip", "pullback", "late"}
\* the series tried for each symbol of a two-symbol bar table
SeriesOf(s) ==
    IF s = "BTC" THEN {"rising", "zigzag", "flat", "dip", "pullback", "late"}
    ELSE {"zigzag", "flat", "late"}
TableChoices == {names \in [Symbols -> SeriesNames] : \A s \in Symbols : names[s] \in SeriesOf(s)}
ScenarioCloses == <<100, 105, 95, 110, 120, 115, 125, 130>>
PullbackCloses == <<1, 2, 3, 2, 4, 5, 3, 6>>

SeriesAt(name, t) ==
    CASE name = "rising" -> t
      [] name = "scenario" -> ScenarioCloses[t]
      [] name = "zigzag" -> IF t % 2 = 1 THEN 1 ELSE 2
      [] name = "flat" -> 5
      [] name = "dip" -> IF t % 2 = 1 THEN 10 ELSE 6 - (t \div 2)
      [] name = "pullback" -> PullbackCloses[t]
      [] name = "late" -> IF t < NumBars THEN NaN ELSE 7

CloseColumn(name) == [t \in Bars |-> SeriesAt(name, t)]

VolumeNames == {"const", "rising"}
VolumeColumn(name) == [t \in Bars |-> IF name = "const" THEN 100 ELSE 100 * t]

VARIABLES
    strategy,        \* "atr" | "sma" | "vwap": the class of the strategy object
    params,          \* constructor arguments kept on the object
    close,           \* price_data['close'].unstack(): symbol -> bar -> price or NaN
    volume,          \* price_data['volume'].unstack()
    signals,         \* self.signals: None, or (entries, exits)
    filtered_close,  \* self.filtered_close: the columns handed to the engine
    portfolio,       \* self.portfolio: None ("none") or built ("set")
    pc,              \* "idle" | "sim": inside from_signals or not
    caller,          \* "none" | "get_metrics": who called run_backtest
    sim_col,         \* index of the column being simulated
    sim_bar,         \* next bar of that column
    cash,            \* column -> free cash
    position,        \* column -> units held
    orders,          \* column -> filled orders, in time order
    trades,          \* column -> closed trades, in time order
    value,           \* column -> portfolio value of the bars processed so far
    metrics,         \* result of get_metrics: None, or the five statistics
    runner,          \* run_all_strategies: where it is and what it has collected
    loader           \* get_data: its position, the two cache files, its result

vars == <<strategy, params, close, volume, signals, filtered_close, portfolio,
          pc, caller, sim_col, sim_bar, cash, position, orders, trades, value,
          metrics, runner, loader>>

data == <<strategy, params, close, volume>>
simstate == <<sim_col, sim_bar, cash, position, orders, trades, value>>

NoSignals == [set |-> FALSE, entries |-> <<>>, exits |-> <<>>]
NoFilteredClose == [set |-> FALSE, columns |-> {}]
NoMetrics == [set |-> FALSE]

\* what the strategy object's methods leave alone
aux == <<runner, loader>>
\* run_all_strategies has not been called
RunnerOff == [phase |-> "off", i |-> 0, exclude |-> {}, all_metrics |-> {},
              outcome |-> "none", columns |-> {}]
\* get_data has not been called
LoaderOff == [phase |-> "off"]
AuxIdle == runner = RunnerOff /\ loader = LoaderOff

IsNaN(x) == x = NaN

RECURSIVE SumOver(_, _)
\* sum of f[i] over the finite set S of integers
SumOver(f, S) ==
    IF S = {} THEN 0
    ELSE LET i == CHOOSE x \in S : TRUE IN f[i] + SumOver(f, S \ {i})

MaxOf(S) == CHOOSE m \in S : \A x \in S : x <= m

(***************************************************************************)
(* ATRBreakoutStrategy.generate_signals                                    *)
(***************************************************************************)
\* close.shift(1).rolling(lookback).max() is NaN until lookback earlier closes exist
BreakoutDefined(c, t) ==
    /\ t - params.lookback >= 1
    /\ \A i \in (t - params.lookback)..(t - 1) : ~IsNaN(close[c][i])

breakout_level(c, t) == MaxOf({close[c][i] : i \in (t - params.lookback)..(t - 1)})

\* (close > breakout_level).fillna(False)
atr_entries(c, t) ==
    /\ ~IsNaN(close[c][t])
    /\ BreakoutDefined(c, t)
    /\ close[c][t] > breakout_level(c, t)

\* trailing_stop = sma - atr * atr_mult is NaN on every bar before both the
\* rolling mean (sma_period) and the ATR (atr_period) have warmed up, and a
\* comparison with NaN is False.  The runs modelled are shorter than the
\* warm-up (WarmUpCoversRun), so the stop never signals.
WarmUpCoversRun == NumBars < sma_period /\ NumBars < atr_period
exits_by_stop(c, t) == FALSE

\* entries.shift(holding_period).fillna(False)
exits_by_time(c, t) == t > params.holding_period /\ atr_entries(c, t - params.holding_period)

atr_exits(c, t) == exits_by_stop(c, t) \/ exits_by_time(c, t)

(***************************************************************************)
(* SMACrossoverStrategy.generate_signals                                   *)
(***************************************************************************)
NotNaCount(c) == Cardinality({t \in Bars : ~IsNaN(close[c][t])})

\* variant: no symbol is filtered out
valid_symbols_all == Symbols

\* close.columns[close.notna().sum() >= self.slow_window]
valid_symbols == {c \in Symbols : NotNaCount(c) >= params.slow_window}

\* a moving average of window w is NaN until w closes, none missing, are in the window
WindowDefined(c, t, w) == t >= w /\ \A i \in (t - w + 1)..t : ~IsNaN(close[c][i])
WindowSum(c, t, w) == SumOver(close[c], (t - w + 1)..t)

\* fast_ma > slow_ma, as fast_sum / fast_window > slow_sum / slow_window
sma_entries(c, t) ==
    /\ WindowDefined(c, t, params.fast_window)
    /\ WindowDefined(c, t, params.slow_window)
    /\ WindowSum(c, t, params.fast_window) * params.slow_window
         > WindowSum(c, t, params.slow_window) * params.fast_window

sma_exits(c, t) ==
    /\ WindowDefined(c, t, params.fast_window)
    /\ WindowDefined(c, t, params.slow_window)
    /\ WindowSum(c, t, params.fast_window) * params.slow_window
         < WindowSum(c, t, params.slow_window) * params.fast_window

(***************************************************************************)
(* VWAPReversionStrategy.generate_signals                                  *)
(***************************************************************************)
\* close.drop(columns=self.exclude_symbols)
vwap_columns == Symbols \ params.exclude_symbols

Present(c, t) == {i \in 1..t : ~IsNaN(close[c][i])}
\* (close_sym * volume_sym).cumsum() and volume_sym.cumsum(), missing rows skipped
CumPV(c, t) == SumOver([i \in Bars |-> close[c][i] * volume[c][i]], Present(c, t))
CumV(c, t) == SumOver(volume[c], Present(c, t))

\* close_sym < vwap * (1 - threshold), with vwap = CumPV / CumV
vwap_entries(c, t) ==
    /\ ~IsNaN(close[c][t])
    /\ close[c][t] * CumV(c, t) * ThresholdDen < CumPV(c, t) * (ThresholdDen - ThresholdNum)

\* close_sym >= vwap
vwap_exits(c, t) ==
    /\ ~IsNaN(close[c][t])
    /\ close[c][t] * CumV(c, t) >= CumPV(c, t)

(***************************************************************************)
(* generate_signals of the object's class: (entries, exits), filtered_close *)
(***************************************************************************)
SignalColumns ==
    CASE strategy = "atr" -> Symbols
      [] strategy = "sma" -> valid_symbols
      [] strategy = "vwap" -> vwap_columns

EntrySignal(c, t) ==
    CASE strategy = "atr" -> atr_entries(c, t)
      [] strategy = "sma" -> sma_entries(c, t)
      [] strategy = "vwap" -> vwap_entries(c, t)

ExitSignal(c, t) ==
    CASE strategy = "atr" -> atr_exits(c, t)
      [] strategy = "sma" -> sma_exits(c, t)
      [] strategy = "vwap" -> vwap_exits(c, t)

GeneratedSignals ==
    [set |-> TRUE,
     entries |-> [c \in SignalColumns |-> [t \in Bars |-> EntrySignal(c, t)]],
     exits |-> [c \in SignalColumns |-> [t \in Bars |-> ExitSignal(c, t)]]]

GeneratedFilteredClose == [set |-> TRUE, columns |-> SignalColumns]

\* the columns of a frame, in order
ColumnsOf(fc) == SelectSeq(ColumnOrder, LAMBDA s : s \in fc.columns)
Columns == ColumnsOf(filtered_close)

(***************************************************************************)
(* vbt.Portfolio.from_signals, one column                                  *)
(***************************************************************************)
\* variant: on a conflict the exit is kept
ResolveConflict_exit_wins(is_entry, is_exit) ==
    IF is_entry /\ is_exit THEN <<FALSE, TRUE>> ELSE <<is_entry, is_exit>>

\* entry and exit on the same bar: both are dropped (the conflict default)
ResolveConflict(is_entry, is_exit) ==
    IF is_entry /\ is_exit THEN <<FALSE, FALSE>> ELSE <<is_entry, is_exit>>

\* variant: an entry buys again while a position is open
SignalToOrder_accumulate(in_position, is_entry, is_exit, price) ==
    IF IsNaN(price) \/ (is_entry /\ is_exit) THEN "none"
    ELSE IF is_entry THEN "buy"
    ELSE IF is_exit /\ in_position THEN "sell"
    ELSE "none"

\* variant: a flat column buys on any bar without an exit signal
SignalToOrder_enter_unsignalled(in_position, is_entry, is_exit, price) ==
    IF IsNaN(price) \/ (is_entry /\ is_exit) THEN "none"
    ELSE IF ~in_position /\ ~is_exit THEN "buy"
    ELSE IF is_exit /\ in_position THEN "sell"
    ELSE "none"

\* the order a bar's signals ask for: long-only, no accumulation, and no
\* order at a missing price
SignalToOrder(in_position, is_entry, is_exit, price) ==
    LET r == ResolveConflict(is_entry, is_exit)
    IN  IF IsNaN(price) THEN "none"
        ELSE IF r[1] /\ ~in_position THEN "buy"
        ELSE IF r[2] /\ in_position THEN "sell"
        ELSE "none"

\* variant: a buy fills at the close
BuyPrice_no_slippage(price) == QMul(QInt(price), QOne)

\* slippage=0.0011: a buy fills above the close, a sell below it
BuyPrice(price) == QMul(QInt(price), QAdd(QOne, Slippage))
SellPrice(price) == QMul(QInt(price), QSub(QOne, Slippage))

\* size=inf under a fee rate: the largest size whose cost plus fees is the cash
BuySizeAt(cash_now, adj_price, fee) == QDiv(cash_now, QMul(adj_price, QAdd(QOne, fee)))

\* size=inf with fees=0.001
BuySize(cash_now, adj_price) == BuySizeAt(cash_now, adj_price, Fees)

\* variant: the fee is paid to the trader
OrderFeesAt_rebate(size, adj_price, fee) == QNeg(QMul(QMul(size, adj_price), fee))

\* the fee of an order: the fee rate times the order's value
OrderFeesAt(size, adj_price, fee) == QMul(QMul(size, adj_price), fee)

OrderFees(size, adj_price) == OrderFeesAt(size, adj_price, Fees)

BuyOrder(t, cash_now, price) ==
    LET adj == BuyPrice(price)
        size == BuySize(cash_now, adj)
    IN  [idx |-> t, side |-> "buy", size |-> size, price |-> adj,
         fees |-> OrderFees(size, adj)]

SellOrder(t, units, price) ==
    LET adj == SellPrice(price)
    IN  [idx |-> t, side |-> "sell", size |-> units, price |-> adj,
         fees |-> OrderFees(units, adj)]

CashAfter(cash_now, order) ==
    LET gross == QMul(order.size, order.price)
    IN  IF order.side = "buy" THEN QSub(QSub(cash_now, gross), order.fees)
        ELSE QSub(QAdd(cash_now, gross), order.fees)

PositionAfter(units, order) ==
    IF order.side = "buy" THEN QAdd(units, order.size) ELSE QSub(units, order.size)

\* variant: the pnl of a trade before fees
TradeOf_gross(entry_order, exit_order) ==
    [entry_idx |-> entry_order.idx,
     exit_idx |-> exit_order.idx,
     size |-> exit_order.size,
     entry_price |-> entry_order.price,
     exit_price |-> exit_order.price,
     entry_fees |-> entry_order.fees,
     exit_fees |-> exit_order.fees,
     pnl |-> QMul(exit_order.size, QSub(exit_order.price, entry_order.price))]

\* a closed trade: the entry order paired with the exit order
TradeOf(entry_order, exit_order) ==
    [entry_idx |-> entry_order.idx,
     exit_idx |-> exit_order.idx,
     size |-> exit_order.size,
     entry_price |-> entry_order.price,
     exit_price |-> exit_order.price,
     entry_fees |-> entry_order.fees,
     exit_fees |-> exit_order.fees,
     pnl |-> QSub(QSub(QMul(exit_order.size,
                            QSub(exit_order.price, entry_order.price)),
                       entry_order.fees),
                  exit_order.fees)]

\* close with missing values forward-filled, then back-filled, for valuation
FilledClose(c, t) ==
    IF ~IsNaN(close[c][t]) THEN close[c][t]
    ELSE IF Present(c, t) # {} THEN close[c][MaxOf(Present(c, t))]
    ELSE LET later == {i \in Bars : i > t /\ ~IsNaN(close[c][i])}
         IN  IF later = {} THEN NaN
             ELSE close[c][CHOOSE i \in later : \A j \in later : i <= j]

\* variant: the value of a column is its cash alone
PortfolioValue_cash_only(cash_now, units, price) == QAdd(cash_now, QZero)

\* portfolio.value() of one column at one bar: cash + units * close
PortfolioValue(cash_now, units, price) == QAdd(cash_now, QMul(units, QInt(price)))

Last(s) == s[Len(s)]
InPosition(c) == position[c].s # 0

(***************************************************************************)
(* The strategy object's methods                                           *)
(***************************************************************************)
\* entering from_signals with the given signals and close frame
StartSimulation(fc) ==
    /\ pc' = "sim"
    /\ sim_col' = 1
    /\ sim_bar' = 1
    /\ cash' = [c \in fc.columns |-> QInt(init_cash)]
    /\ position' = [c \in fc.columns |-> QZero]
    /\ orders' = [c \in fc.columns |-> <<>>]
    /\ trades' = [c \in fc.columns |-> <<>>]
    /\ value' = [c \in fc.columns |-> <<>>]

GenerateSignals ==
    /\ pc = "idle"
    /\ signals' = GeneratedSignals
    /\ filtered_close' = GeneratedFilteredClose
    /\ UNCHANGED <<data, portfolio, pc, caller, simstate, metrics>>
    /\ UNCHANGED aux

\* variant: from_signals is entered with whatever self.signals holds
BeginBacktest_no_generate(who) ==
    /\ pc = "idle"
    /\ caller' = who
    /\ UNCHANGED <<signals, filtered_close>>
    /\ StartSimulation(filtered_close)
    /\ UNCHANGED <<data, portfolio, metrics>>

\* run_backtest: generate_signals first iff self.signals is None
BeginBacktest(who) ==
    /\ pc = "idle"
    /\ caller' = who
    /\ IF signals.set
         THEN /\ UNCHANGED <<signals, filtered_close>>
              /\ StartSimulation(filtered_close)
         ELSE /\ signals' = GeneratedSignals
              /\ filtered_close' = GeneratedFilteredClose
              /\ StartSimulation(GeneratedFilteredClose)
    /\ UNCHANGED <<data, portfolio, metrics>>

RunBacktest == BeginBacktest("none") /\ UNCHANGED aux

\* variant: every column buys with the cash of one and the same column
EngineAfter_shared_cash(st, c, t, is_entry, is_exit) ==
    LET pool == st.cash[CHOOSE k \in DOMAIN st.cash : TRUE]
        kind == SignalToOrder(st.position[c].s # 0, is_entry, is_exit, close[c][t])
        order == IF kind = "buy" THEN BuyOrder(t, pool, close[c][t])
                 ELSE SellOrder(t, st.position[c], close[c][t])
        cash1 == IF kind = "none" THEN st.cash[c] ELSE CashAfter(st.cash[c], order)
        pos1 == IF kind = "none" THEN st.position[c]
                ELSE PositionAfter(st.position[c], order)
    IN  [cash |-> [st.cash EXCEPT ![c] = cash1],
         position |-> [st.position EXCEPT ![c] = pos1],
         orders |-> IF kind = "none" THEN st.orders
                    ELSE [st.orders EXCEPT ![c] = Append(@, order)],
         trades |-> IF kind = "sell"
                      THEN [st.trades EXCEPT ![c] =
                               Append(@, TradeOf(Last(st.orders[c]), order))]
                      ELSE st.trades,
         value |-> [st.value EXCEPT ![c] =
                       Append(@, PortfolioValue(cash1, pos1, FilledClose(c, t)))]]

\* from_signals on bar t of column c, whose signals are is_entry and is_exit:
\* the cash, positions, orders, trades and values st of all columns afterwards
\* (every column is a group of its own with its own cash)
EngineAfter(st, c, t, is_entry, is_exit) ==
    LET kind == SignalToOrder(st.position[c].s # 0, is_entry, is_exit, close[c][t])
        order == IF kind = "buy" THEN BuyOrder(t, st.cash[c], close[c][t])
                 ELSE SellOrder(t, st.position[c], close[c][t])
        cash1 == IF kind = "none" THEN st.cash[c] ELSE CashAfter(st.cash[c], order)
        pos1 == IF kind = "none" THEN st.position[c]
                ELSE PositionAfter(st.position[c], order)
    IN  [cash |-> [st.cash EXCEPT ![c] = cash1],
         position |-> [st.position EXCEPT ![c] = pos1],
         orders |-> IF kind = "none" THEN st.orders
                    ELSE [st.orders EXCEPT ![c] = Append(@, order)],
         trades |-> IF kind = "sell"
                      THEN [st.trades EXCEPT ![c] =
                               Append(@, TradeOf(Last(st.orders[c]), order))]
                      ELSE st.trades,
         value |-> [st.value EXCEPT ![c] =
                       Append(@, PortfolioValue(cash1, pos1, FilledClose(c, t)))]]

\* the engine's books as they stand
Books ==
    [cash |-> cash, position |-> position, orders |-> orders,
     trades |-> trades, value |-> value]

\* the books take the values of st
BooksBecome(st) ==
    /\ cash' = st.cash
    /\ position' = st.position
    /\ orders' = st.orders
    /\ trades' = st.trades
    /\ value' = st.value

\* from_signals on bar t of column c, then on to the next bar or column
StepColumn(c, t, is_entry, is_exit) ==
    /\ BooksBecome(EngineAfter(Books, c, t, is_entry, is_exit))
    /\ IF t < NumBars
         THEN sim_bar' = t + 1 /\ sim_col' = sim_col
         ELSE sim_bar' = 1 /\ sim_col' = sim_col + 1

\* one bar of one column inside from_signals
SimStep ==
    /\ pc = "sim"
    /\ sim_col <= Len(Columns)
    /\ StepColumn(Columns[sim_col], sim_bar,
                  signals.entries[Columns[sim_col]][sim_bar],
                  signals.exits[Columns[sim_col]][sim_bar])
    /\ UNCHANGED <<data, signals, filtered_close, portfolio, pc, caller, metrics>>
    /\ UNCHANGED aux

(***************************************************************************)
(* portfolio.stats(): per column, then the mean over the columns (missing   *)
(* values skipped).  A statistic is NaN, +inf, a number, or, for the Sharpe *)
(* ratio (a square root), a finite number whose value is not computed.      *)
(***************************************************************************)
StatNaN == [kind |-> "nan"]
StatInf == [kind |-> "inf"]
StatFinite == [kind |-> "finite"]
StatNum(q) == [kind |-> "num", val |-> q]

RECURSIVE QSumOver(_, _)
\* sum of the numbers f[c].val over the finite set S
QSumOver(f, S) ==
    IF S = {} THEN QZero
    ELSE LET c == CHOOSE x \in S : TRUE IN QAdd(f[c].val, QSumOver(f, S \ {c}))

RECURSIVE QSumSeq(_, _)
\* sum of the pnl of the first n trades of the log s
QSumSeq(s, n) == IF n = 0 THEN QZero ELSE QAdd(s[n].pnl, QSumSeq(s, n - 1))

\* variant: the columns' statistics are added up
AggStat_sum(f) ==
    LET cols == DOMAIN f
        nums == {c \in cols : f[c].kind = "num"}
    IN  IF \E c \in cols : f[c].kind = "inf" THEN StatInf
        ELSE IF \E c \in cols : f[c].kind = "finite" THEN StatFinite
        ELSE IF nums = {} THEN StatNaN
        ELSE StatNum(QSumOver(f, nums))

\* a statistic of the portfolio from those of its columns: their mean,
\* missing values skipped
AggStat(f) ==
    LET cols == DOMAIN f
        nums == {c \in cols : f[c].kind = "num"}
    IN  IF \E c \in cols : f[c].kind = "inf" THEN StatInf
        ELSE IF \E c \in cols : f[c].kind = "finite" THEN StatFinite
        ELSE IF nums = {} THEN StatNaN
        ELSE StatNum(QDiv(QSumOver(f, nums), QInt(Cardinality(nums))))

\* Total Return [%]: (final value / init_cash - 1) * 100
ColTotalReturn(c) ==
    StatNum(QMul(QSub(QDiv(Last(value[c]), QInt(init_cash)), QOne), QHundred))

Winning(c) == {i \in 1..Len(trades[c]) : trades[c][i].pnl.s > 0}

\* Win Rate [%]: winning closed trades / closed trades, 0/0 with no closed trade
ColWinRate(c) ==
    IF Len(trades[c]) = 0 THEN StatNaN
    ELSE StatNum(QFrac(100 * Cardinality(Winning(c)), Len(trades[c])))

\* Expectancy: mean pnl of the closed trades
ColExpectancy(c) ==
    IF Len(trades[c]) = 0 THEN StatNaN
    ELSE StatNum(QDiv(QSumSeq(trades[c], Len(trades[c])), QInt(Len(trades[c]))))

\* period returns of the value curve, the first one against init_cash
ReturnAt(c, t) ==
    QSub(QDiv(value[c][t], IF t = 1 THEN QInt(init_cash) ELSE value[c][t - 1]), QOne)

ZeroVariance(c) == \A t \in 1..Len(value[c]) : QEq(ReturnAt(c, t), ReturnAt(c, 1))

\* Sharpe Ratio: mean / std * sqrt(periods per year); with zero std the
\* quotient is not a finite number: undef is what the library yields then
ColSharpe(c, undef) == IF ZeroVariance(c) THEN undef ELSE StatFinite

QMax(x, y) == IF QLt(x, y) THEN y ELSE x

\* drawdown of value v under the running maximum peak, in percent
Drawdown(v, peak) == QMul(QSub(QOne, QDiv(v, peak)), QHundred)

RECURSIVE MaxDrawdownFrom(_, _, _, _)
\* the largest drawdown of bars t.. of the curve, given the peak and the
\* largest drawdown of the bars before t
MaxDrawdownFrom(curve, t, peak, best) ==
    IF t > Len(curve) THEN best
    ELSE LET p == QMax(peak, curve[t])
         IN  MaxDrawdownFrom(curve, t + 1, p, QMax(best, Drawdown(curve[t], p)))

MaxDrawdown(curve) == MaxDrawdownFrom(curve, 1, curve[1], QZero)

\* Max Drawdown [%]; a curve that never falls below its peak has no drawdown
\* record: nodd is what the library yields then
ColMaxDrawdown(c, nodd) ==
    LET m == MaxDrawdown(value[c])
    IN  IF m.s = 0 THEN nodd ELSE StatNum(m)

\* outcomes of the two undefined statistics
ZeroStdOutcomes == {StatNaN, StatInf}
NoDrawdownOutcomes == {StatNaN, StatNum(QZero)}
UndefSharpe == [kind |-> "undef"]
NoDrawdown == [kind |-> "nodd"]

\* the five statistics of one column, the undefined ones left open
ColumnStats(c) ==
    [total_return |-> ColTotalReturn(c),
     sharpe |-> ColSharpe(c, UndefSharpe),
     max_drawdown |-> ColMaxDrawdown(c, NoDrawdown),
     win_rate |-> ColWinRate(c),
     expectancy |-> ColExpectancy(c)]

AllColumnStats == [c \in filtered_close.columns |-> ColumnStats(c)]

Resolve(v, undef, nodd) ==
    IF v.kind = "undef" THEN undef ELSE IF v.kind = "nodd" THEN nodd ELSE v

\* stats.get(key): the statistic of every column, aggregated
RawStat(cs, key, undef, nodd) ==
    CASE key = "Total Return [%]" -> AggStat([c \in DOMAIN cs |-> cs[c].total_return])
      [] key = "Sharpe Ratio" ->
           AggStat([c \in DOMAIN cs |-> Resolve(cs[c].sharpe, undef, nodd)])
      [] key = "Max Drawdown [%]" ->
           AggStat([c \in DOMAIN cs |-> Resolve(cs[c].max_drawdown, undef, nodd)])
      [] key = "Win Rate [%]" -> AggStat([c \in DOMAIN cs |-> cs[c].win_rate])
      [] key = "Expectancy" -> AggStat([c \in DOMAIN cs |-> cs[c].expectancy])

\* ATRBreakoutStrategy.get_metrics.safe_get on a scalar: val if pd.notna(val) else 0.0
atr_safe_get(val) == IF val.kind = "nan" THEN StatNum(QZero) ELSE val

\* VWAPReversionStrategy.get_metrics.safe_get on a scalar
vwap_safe_get(val) == IF val.kind = "nan" THEN StatNum(QZero) ELSE val

\* SMACrossoverStrategy.get_metrics: stats.get(key, pd.NA).mean(), the scalar itself
sma_get(val) == val

SafeGet(val) ==
    CASE strategy = "atr" -> atr_safe_get(val)
      [] strategy = "sma" -> sma_get(val)
      [] strategy = "vwap" -> vwap_safe_get(val)

MetricKeys == {"Total Return", "Sharpe Ratio", "Max Drawdown", "Win Rate", "Expectancy"}

MetricsOf(cs, undef, nodd) ==
    [set |-> TRUE,
     stats |-> [k \in MetricKeys |->
        CASE k = "Total Return" -> SafeGet(RawStat(cs, "Total Return [%]", undef, nodd))
          [] k = "Sharpe Ratio" -> SafeGet(RawStat(cs, "Sharpe Ratio", undef, nodd))
          [] k = "Max Drawdown" -> SafeGet(RawStat(cs, "Max Drawdown [%]", undef, nodd))
          [] k = "Win Rate" -> SafeGet(RawStat(cs, "Win Rate [%]", undef, nodd))
          [] k = "Expectancy" -> SafeGet(RawStat(cs, "Expectancy", undef, nodd))]]

\* the statistics get_metrics can return from the portfolio as it stands
PossibleMetrics ==
    LET cs == AllColumnStats
    IN  {MetricsOf(cs, undef, nodd) : undef \in ZeroStdOutcomes, nodd \in NoDrawdownOutcomes}

\* from_signals returns: self.portfolio is assigned; get_metrics, when it was
\* the caller, goes on to read the statistics
SimFinish ==
    /\ pc = "sim"
    /\ sim_col > Len(Columns)
    /\ pc' = "idle"
    /\ portfolio' = "set"
    /\ caller' = "none"
    /\ IF caller = "get_metrics"
         THEN metrics' \in PossibleMetrics
         ELSE UNCHANGED metrics
    /\ UNCHANGED <<data, signals, filtered_close, simstate>>
    /\ UNCHANGED aux

\* get_metrics: run_backtest first iff self.portfolio is None
GetMetrics ==
    /\ pc = "idle"
    /\ IF portfolio = "set"
         THEN /\ metrics' \in PossibleMetrics
              /\ UNCHANGED <<data, signals, filtered_close, portfolio, pc, caller, simstate>>
         ELSE BeginBacktest("get_metrics")
    /\ UNCHANGED aux

(***************************************************************************)
(* A strategy object after construction, over every bar table tried.       *)
(***************************************************************************)
ParamChoices(kind) ==
    CASE kind = "atr" ->
           {[lookback |-> l, holding_period |-> h, fast_window |-> 0,
             slow_window |-> 0, exclude_symbols |-> {}] :
              l \in LookbackChoices, h \in HoldingChoices}
      [] kind = "sma" ->
           {[lookback |-> 0, holding_period |-> 0, fast_window |-> w[1],
             slow_window |-> w[2], exclude_symbols |-> {}] : w \in WindowChoices}
      [] kind = "vwap" ->
           {[lookback |-> 0, holding_period |-> 0, fast_window |-> 0,
             slow_window |-> 0, exclude_symbols |-> x] : x \in ExcludeChoices}

FreshObject ==
    /\ signals = NoSignals
    /\ filtered_close = NoFilteredClose
    /\ portfolio = "none"
    /\ pc = "idle"
    /\ caller = "none"
    /\ sim_col = 1
    /\ sim_bar = 1
    /\ cash = <<>>
    /\ position = <<>>
    /\ orders = <<>>
    /\ trades = <<>>
    /\ value = <<>>
    /\ metrics = NoMetrics

Init ==
    /\ WarmUpCoversRun
    /\ strategy \in {"atr", "sma", "vwap"}
    /\ params \in ParamChoices(strategy)
    /\ \E names \in TableChoices :
          close = [s \in Symbols |-> CloseColumn(names[s])]
    \* only the VWAP strategy reads the volume
    /\ \E v \in (IF strategy = "vwap" THEN VolumeNames ELSE {"const"}) :
          volume = [s \in Symbols |-> VolumeColumn(v)]
    \* the SMA strategy is given at least one symbol with slow_window closes
    /\ SignalColumns # {}
    /\ FreshObject
    /\ AuxIdle

Next ==
    \/ GenerateSignals
    \/ RunBacktest
    \/ SimStep
    \/ SimFinish
    \/ GetMetrics

Spec == Init /\ [][Next]_vars

(***************************************************************************)
(* from_signals as a function of its arguments: one column of closes with  *)
(* every pair of entry and exit signal columns.  The signal rows are drawn *)
(* as the engine reads them; signals holds the rows read so far.           *)
(***************************************************************************)
EngineSeries == {"scenario", "zigzag"}
EngineColumns == {"BTC"}

InitEngine ==
    /\ strategy = "none"
    /\ params = [lookback |-> 0, holding_period |-> 0, fast_window |-> 0,
                 slow_window |-> 0, exclude_symbols |-> {}]
    /\ \E n \in EngineSeries :
          close = [s \in Symbols |-> CloseColumn(IF s \in EngineColumns THEN n ELSE "flat")]
    /\ volume = [s \in Symbols |-> VolumeColumn("const")]
    /\ signals = [set |-> TRUE,
                  entries |-> [c \in EngineColumns |-> <<>>],
                  exits |-> [c \in EngineColumns |-> <<>>]]
    /\ filtered_close = [set |-> TRUE, columns |-> EngineColumns]
    /\ portfolio = "none"
    /\ pc = "sim"
    /\ caller = "none"
    /\ sim_col = 1
    /\ sim_bar = 1
    /\ cash = [c \in EngineColumns |-> QInt(init_cash)]
    /\ position = [c \in EngineColumns |-> QZero]
    /\ orders = [c \in EngineColumns |-> <<>>]
    /\ trades = [c \in EngineColumns |-> <<>>]
    /\ value = [c \in EngineColumns |-> <<>>]
    /\ metrics = NoMetrics
    /\ AuxIdle

\* one bar of one column, for any signals on that bar
EngineStep ==
    /\ pc = "sim"
    /\ sim_col <= Len(Columns)
    /\ \E is_entry \in BOOLEAN, is_exit \in BOOLEAN :
          /\ signals' = [signals EXCEPT
                            !.entries[Columns[sim_col]] = Append(@, is_entry),
                            !.exits[Columns[sim_col]] = Append(@, is_exit)]
          /\ StepColumn(Columns[sim_col], sim_bar, is_entry, is_exit)
    /\ UNCHANGED <<data, filtered_close, portfolio, pc, caller, metrics>>
    /\ UNCHANGED aux

NextEngine ==
    \/ EngineStep
    \/ SimFinish

SpecEngine == InitEngine /\ [][NextEngine]_vars

(***************************************************************************)
(* Backtester.run: the aggregate equity curve                              *)
(***************************************************************************)
Finished == pc = "idle" /\ portfolio = "set"

\* equity_curve.sum(axis=1) at bar t, over the columns of the portfolio
total_equity(t) == QSumOver([c \in DOMAIN value |-> StatNum(value[c][t])], DOMAIN value)

(***************************************************************************)
(* What the order log says about a column                                  *)
(***************************************************************************)
\* the number of orders of column c filled on bars 1..t
OrdersThrough(c, t) == Cardinality({i \in 1..Len(orders[c]) : orders[c][i].idx <= t})
\* LONG after bar t / before bar t
LongAfter(c, t) == OrdersThrough(c, t) % 2 = 1
LongBefore(c, t) == LongAfter(c, t - 1)
OrderAt(c, t) == {i \in 1..Len(orders[c]) : orders[c][i].idx = t}
\* the net pnl of the trades of column c closed on bars 1..t
RealizedThrough(c, t) == QSumSeq(trades[c], OrdersThrough(c, t) \div 2)
BothAt(c, t) == signals.entries[c][t] /\ signals.exits[c][t]
NoEntries(c) == \A t \in 1..Len(value[c]) : ~signals.entries[c][t]
FlatCurve(c) == \A t \in 1..Len(value[c]) : QEq(value[c][t], QInt(init_cash))
Near(x, a, tol) == QLe(QSub(a, tol), x) /\ QLe(x, QAdd(a, tol))

(***************************************************************************)
(* C1: for any entry and exit signal columns, the orders of a column       *)
(* alternate buy, sell, buy, ... on strictly later bars, starting with a   *)
(* buy: a position is opened only from FLAT and closed only from LONG, the *)
(* open position is the size of the one buy that opened it, and a trade    *)
(* never exits later than the next trade of the column enters.             *)
(***************************************************************************)
C1_StrictAlternation ==
    \A c \in DOMAIN orders :
       /\ \A i \in 1..Len(orders[c]) :
             orders[c][i].side = (IF i % 2 = 1 THEN "buy" ELSE "sell")
       /\ \A i \in 1..(Len(orders[c]) - 1) : orders[c][i].idx < orders[c][i + 1].idx
       /\ InPosition(c) <=> (Len(orders[c]) % 2 = 1)
       /\ InPosition(c) => QEq(position[c], Last(orders[c]).size)
       /\ Len(trades[c]) = Len(orders[c]) \div 2
       /\ \A i \in 1..Len(trades[c]) :
             /\ trades[c][i].entry_idx = orders[c][2 * i - 1].idx
             /\ trades[c][i].exit_idx = orders[c][2 * i].idx
             /\ QEq(trades[c][i].size, orders[c][2 * i - 1].size)
       /\ \A i \in 1..(Len(trades[c]) - 1) :
             trades[c][i].exit_idx <= trades[c][i + 1].entry_idx

\* two trades closed and a third position open in one column
C1_Witness ==
    \E c \in DOMAIN orders : Len(trades[c]) = 2 /\ InPosition(c)

(***************************************************************************)
(* C5: a column whose entry signal is false on every bar, whatever its     *)
(* exit signals and closes, has no order and no trade, holds no position,  *)
(* and is worth init_cash at every bar.                                    *)
(***************************************************************************)
C5_NoEntryStaysFlat ==
    \A c \in DOMAIN value :
       NoEntries(c) =>
          /\ Len(orders[c]) = 0
          /\ Len(trades[c]) = 0
          /\ ~InPosition(c)
          /\ QEq(cash[c], QInt(init_cash))
          /\ FlatCurve(c)

\* a finished run of a column that saw exit signals and never an entry
C5_Witness ==
    /\ Finished
    /\ \E c \in DOMAIN value :
          /\ Len(value[c]) = NumBars
          /\ NoEntries(c)
          /\ \E t \in Bars : signals.exits[c][t]
          /\ \E t \in Bars : close[c][t] # close[c][1]

(***************************************************************************)
(* C6: when a column is still LONG after the last bar, the run has ended   *)
(* all the same, the closed trades are exactly the sells (none for the     *)
(* open position), and the column's final value is its cash plus the open  *)
(* units at the last close.                                                *)
(***************************************************************************)
C6_OpenAtEnd ==
    \A c \in DOMAIN value :
       (Finished /\ InPosition(c)) =>
          /\ Len(value[c]) = NumBars
          /\ Last(orders[c]).side = "buy"
          /\ Len(trades[c]) = Cardinality({i \in 1..Len(orders[c]) : orders[c][i].side = "sell"})
          /\ \A i \in 1..Len(trades[c]) : trades[c][i].entry_idx # Last(orders[c]).idx
          /\ QEq(Last(value[c]),
                 QAdd(cash[c], QMul(position[c], QInt(close[c][NumBars]))))
          /\ QEq(Last(value[c]),
                 QAdd(QAdd(QInt(init_cash), RealizedThrough(c, NumBars)),
                      QSub(QMul(position[c], QInt(close[c][NumBars])),
                           QAdd(QMul(position[c], Last(orders[c]).price),
                                Last(orders[c]).fees))))

\* a finished run that closed one trade and ends with a position open
C6_Witness ==
    /\ Finished
    /\ \E c \in DOMAIN value : InPosition(c) /\ Len(trades[c]) = 1

(***************************************************************************)
(* C10: the scenario closes 100, 105, 95, 110, 120 with an entry on the    *)
(* first bar and an exit on the fifth.                                     *)
(***************************************************************************)
ScenarioRun ==
    /\ "BTC" \in DOMAIN value
    /\ Len(value["BTC"]) = 5
    /\ \A t \in 1..5 : close["BTC"][t] = ScenarioCloses[t]
    /\ \A t \in 1..5 : signals.entries["BTC"][t] = (t = 1)
    /\ \A t \in 1..5 : signals.exits["BTC"][t] = (t = 5)

ScenarioTrade == trades["BTC"][1]
SpecUnits == QDiv(QInt(init_cash), QFrac(10011, 100))
CodeUnits == QDiv(QInt(init_cash), QMul(QFrac(10011, 100), QFrac(1001, 1000)))
SpecNetPnl(t) ==
    QSub(QMul(QMul(t.size, t.exit_price), QSub(QOne, Fees)),
         QMul(QMul(t.size, t.entry_price), QAdd(QOne, Fees)))

\* C10 as stated: one trade, bars 1 to 5, fills 100.11 and 119.868, units
\* 10/100.11, net pnl about 1.945, value at the fifth bar 10 + net pnl,
\* about 11.945
C10_ScenarioAsStated ==
    ScenarioRun =>
       /\ Len(trades["BTC"]) = 1
       /\ ScenarioTrade.entry_idx = 1 /\ ScenarioTrade.exit_idx = 5
       /\ QEq(ScenarioTrade.entry_price, QFrac(10011, 100))
       /\ QEq(ScenarioTrade.exit_price, QFrac(119868, 1000))
       /\ QEq(ScenarioTrade.size, SpecUnits)
       /\ QEq(ScenarioTrade.pnl, SpecNetPnl(ScenarioTrade))
       /\ Near(ScenarioTrade.pnl, QFrac(1945, 1000), QFrac(5, 10000))
       /\ QEq(value["BTC"][5], QAdd(QInt(init_cash), ScenarioTrade.pnl))
       /\ Near(value["BTC"][5], QFrac(11945, 1000), QFrac(5, 10000))

\* C10 amended: one trade, bars 1 to 5, fills 100.11 and 119.868, units
\* 10/(100.11 * 1.001) (the fee is paid out of the 10), net pnl
\* units*119.868*0.999 - units*100.11*1.001, about 1.9497, and the value
\* at the fifth bar is 10 + net pnl, about 11.9497
C10_ScenarioAmended ==
    ScenarioRun =>
       /\ Len(trades["BTC"]) = 1
       /\ ScenarioTrade.entry_idx = 1 /\ ScenarioTrade.exit_idx = 5
       /\ QEq(ScenarioTrade.entry_price, QFrac(10011, 100))
       /\ QEq(ScenarioTrade.exit_price, QFrac(119868, 1000))
       /\ QEq(ScenarioTrade.size, CodeUnits)
       /\ QEq(ScenarioTrade.pnl, SpecNetPnl(ScenarioTrade))
       /\ Near(ScenarioTrade.pnl, QFrac(19497, 10000), QFrac(5, 100000))
       /\ QEq(value["BTC"][5], QAdd(QInt(init_cash), ScenarioTrade.pnl))
       /\ Near(value["BTC"][5], QFrac(119497, 10000), QFrac(5, 100000))
       /\ \A t \in 1..4 :
             QEq(value["BTC"][t], QMul(CodeUnits, QInt(ScenarioCloses[t])))

\* the scenario has run through its fifth bar
C10_Witness == ScenarioRun /\ ~InPosition("BTC") /\ Len(orders["BTC"]) = 2

(***************************************************************************)
(* C2 as stated: on a bar where the entry and the exit signal of a column  *)
(* are both true an order is filled, a buy when the column was FLAT before *)
(* the bar and a sell when it was LONG, for every strategy's signals.      *)
(***************************************************************************)
C2_TieBreakByState ==
    \A c \in DOMAIN value :
       \A t \in 1..Len(value[c]) :
          BothAt(c, t) =>
             \E i \in OrderAt(c, t) :
                orders[c][i].side = (IF LongBefore(c, t) THEN "sell" ELSE "buy")

\* C2 amended: on a bar where the entry and the exit signal of a column are
\* both true no order is filled, whether the column was FLAT or LONG before
\* the bar, and the column is after the bar what it was before it
C2_ConflictIgnored ==
    \A c \in DOMAIN value :
       \A t \in 1..Len(value[c]) :
          BothAt(c, t) =>
             /\ OrderAt(c, t) = {}
             /\ LongAfter(c, t) <=> LongBefore(c, t)
             /\ (t = Len(value[c]) /\ ~LongBefore(c, t)) => ~InPosition(c)
             /\ (t = Len(value[c]) /\ LongBefore(c, t)) => InPosition(c)

\* the ATR breakout strategy has produced both signals on a bar that found
\* its column LONG and on a bar that found its column FLAT
C2_Witness ==
    /\ strategy = "atr"
    /\ Finished
    /\ \E c \in DOMAIN value : \E t \in Bars : BothAt(c, t) /\ LongBefore(c, t)
    /\ \E c \in DOMAIN value : \E t \in Bars : BothAt(c, t) /\ ~LongBefore(c, t)

(***************************************************************************)
(* C3 as stated: in the ATR breakout strategy a position opened on bar e   *)
(* is closed on bar e + holding_period at the latest, whenever the run     *)
(* has got that far.                                                       *)
(***************************************************************************)
C3_HoldingCapForcesExit ==
    strategy = "atr" =>
       \A c \in DOMAIN value :
          \A i \in 1..Len(orders[c]) :
             (/\ orders[c][i].side = "buy"
              /\ Len(value[c]) >= orders[c][i].idx + params.holding_period)
             => /\ i < Len(orders[c])
                /\ orders[c][i + 1].side = "sell"
                /\ orders[c][i + 1].idx <= orders[c][i].idx + params.holding_period

\* a position of the ATR breakout strategy held beyond holding_period bars
C3_Witness ==
    /\ strategy = "atr"
    /\ Finished
    /\ \E c \in DOMAIN value :
          /\ InPosition(c)
          /\ Last(orders[c]).idx + params.holding_period < NumBars

ExpectedColumns ==
    CASE strategy = "atr" -> Symbols
      [] strategy = "sma" -> {s \in Symbols : NotNaCount(s) >= params.slow_window}
      [] strategy = "vwap" -> Symbols \ params.exclude_symbols

C7_EquityAccounting ==
    /\ \A c \in DOMAIN value :
          LET t == Len(value[c])
          IN  t > 0 =>
                 /\ OrdersThrough(c, t) = Len(orders[c])
                 /\ ~InPosition(c) =>
                       QEq(value[c][t], QAdd(QInt(init_cash), RealizedThrough(c, t)))
                 /\ InPosition(c) =>
                       QEq(value[c][t],
                           QAdd(cash[c], QMul(position[c], QInt(FilledClose(c, t)))))
                 /\ (OrderAt(c, t) # {} /\ ~InPosition(c)) =>
                       QEq(Last(trades[c]).pnl, SpecNetPnl(Last(trades[c])))
    /\ Finished =>
          \A t \in Bars :
             (\A c \in DOMAIN value : ~LongAfter(c, t)) =>
                QEq(total_equity(t),
                    QAdd(QInt(init_cash * Cardinality(DOMAIN value)),
                         QSumOver([c \in DOMAIN value |-> StatNum(RealizedThrough(c, t))],
                                  DOMAIN value)))

\* both columns have closed a trade and are FLAT at the end of the run
C7_Witness ==
    /\ Finished
    /\ Cardinality(DOMAIN value) = 2
    /\ \A c \in DOMAIN value : Len(trades[c]) >= 1 /\ ~InPosition(c)

(***************************************************************************)
(* C8 as stated: none of the five statistics get_metrics returns is NaN,   *)
(* in any of the three strategies.                                         *)
(***************************************************************************)
C8_NoNaNMetric ==
    metrics.set => \A k \in MetricKeys : metrics.stats[k].kind # "nan"

\* the SMA crossover strategy has returned a NaN win rate for a run without
\* a closed trade
C8_Witness ==
    /\ strategy = "sma"
    /\ Finished
    /\ metrics.set
    /\ \A c \in DOMAIN trades : Len(trades[c]) = 0
    /\ metrics.stats["Win Rate"].kind = "nan"

(***************************************************************************)
(* C9 as stated: when every entry signal of the run is false, get_metrics  *)
(* returns 0.0 for the win rate, the expectancy, the Sharpe ratio and the  *)
(* total return.                                                           *)
(***************************************************************************)
IsZero(v) == v.kind = "num" /\ v.val.s = 0

C9_ZeroTradeFallback ==
    (/\ metrics.set
     /\ Finished
     /\ \A c \in DOMAIN value : Len(value[c]) = NumBars /\ NoEntries(c))
    => /\ IsZero(metrics.stats["Win Rate"])
       /\ IsZero(metrics.stats["Expectancy"])
       /\ IsZero(metrics.stats["Sharpe Ratio"])
       /\ IsZero(metrics.stats["Total Return"])

\* the SMA crossover strategy, with no entry signal at all, has returned a
\* total return of 0.0 and an expectancy that is NaN
C9_Witness ==
    /\ strategy = "sma"
    /\ Finished
    /\ metrics.set
    /\ \A c \in DOMAIN value : NoEntries(c)
    /\ IsZero(metrics.stats["Total Return"])
    /\ metrics.stats["Expectancy"].kind = "nan"

(***************************************************************************)
(* One task per symbol: each column of the generated signals is simulated  *)
(* on its own, the tasks interleaved in any order, and the columns of the  *)
(* results put together.                                                   *)
(***************************************************************************)
InitMerge ==
    /\ WarmUpCoversRun
    /\ strategy \in {"atr", "sma", "vwap"}
    /\ params \in ParamChoices(strategy)
    /\ \E names \in TableChoices :
          close = [s \in Symbols |-> CloseColumn(names[s])]
    /\ \E v \in (IF strategy = "vwap" THEN VolumeNames ELSE {"const"}) :
          volume = [s \in Symbols |-> VolumeColumn(v)]
    /\ SignalColumns # {}
    /\ signals = GeneratedSignals
    /\ filtered_close = GeneratedFilteredClose
    /\ portfolio = "none"
    /\ pc = "sim"
    /\ caller = "none"
    /\ sim_col = 1
    /\ sim_bar = 1
    /\ cash = [c \in SignalColumns |-> QInt(init_cash)]
    /\ position = [c \in SignalColumns |-> QZero]
    /\ orders = [c \in SignalColumns |-> <<>>]
    /\ trades = [c \in SignalColumns |-> <<>>]
    /\ value = [c \in SignalColumns |-> <<>>]
    /\ metrics = NoMetrics
    /\ AuxIdle

\* the task of column c simulates its next bar
TaskStep ==
    /\ pc = "sim"
    /\ \E c \in DOMAIN value :
          /\ Len(value[c]) < NumBars
          /\ BooksBecome(EngineAfter(Books, c, Len(value[c]) + 1,
                                     signals.entries[c][Len(value[c]) + 1],
                                     signals.exits[c][Len(value[c]) + 1]))
    /\ UNCHANGED <<data, signals, filtered_close, portfolio, pc, caller,
                   sim_col, sim_bar, metrics>>
    /\ UNCHANGED aux

\* all tasks are done: the merged result is there
MergeFinish ==
    /\ pc = "sim"
    /\ \A c \in DOMAIN value : Len(value[c]) = NumBars
    /\ pc' = "idle"
    /\ portfolio' = "set"
    /\ UNCHANGED <<data, signals, filtered_close, caller, simstate, metrics>>
    /\ UNCHANGED aux

NextMerge ==
    \/ TaskStep
    \/ MergeFinish

SpecMerge == InitMerge /\ [][NextMerge]_vars

RECURSIVE OnePass(_)
\* the books of from_signals on the whole table after its first k steps,
\* column after column in the order of the columns, bar after bar
OnePass(k) ==
    IF k = 0
      THEN [cash |-> [c \in DOMAIN value |-> QInt(init_cash)],
            position |-> [c \in DOMAIN value |-> QZero],
            orders |-> [c \in DOMAIN value |-> <<>>],
            trades |-> [c \in DOMAIN value |-> <<>>],
            value |-> [c \in DOMAIN value |-> <<>>]]
      ELSE LET c == Columns[((k - 1) \div NumBars) + 1]
               t == ((k - 1) % NumBars) + 1
           IN  EngineAfter(OnePass(k - 1), c, t,
                           signals.entries[c][t], signals.exits[c][t])

StrategyOrder == <<"atr", "vwap", "sma">>
\* exclude_symbols as the caller passes it: empty, a symbol of the table, a
\* symbol the table does not have
RunAllExcludeChoices == {{}, {"ETH"}, {"XRP"}}

\* the kwargs of the i-th strategy, scaled to the length of the tables
RunAllKwargs(kind) ==
    IF kind = "vwap"
      THEN {[lookback |-> 0, holding_period |-> 0, fast_window |-> 0,
             slow_window |-> 0, exclude_symbols |-> runner.exclude]}
      ELSE ParamChoices(kind)

\* close.drop(columns=self.exclude_symbols) raises KeyError for a label
\* that is not a column
GenerateRaises ==
    strategy = "vwap" /\ ~(params.exclude_symbols \subseteq Symbols)

InitRunAll ==
    /\ WarmUpCoversRun
    /\ strategy = "none"
    /\ params = [lookback |-> 0, holding_period |-> 0, fast_window |-> 0,
                 slow_window |-> 0, exclude_symbols |-> {}]
    /\ \E names \in TableChoices :
          /\ names["BTC"] # "late"
          /\ close = [s \in Symbols |-> CloseColumn(names[s])]
    /\ volume = [s \in Symbols |-> VolumeColumn("const")]
    /\ FreshObject
    /\ loader = LoaderOff
    /\ \E x \in RunAllExcludeChoices :
          runner = [phase |-> "construct", i |-> 1, exclude |-> x,
                    all_metrics |-> {}, outcome |-> "running", columns |-> {}]

\* Backtester(strategy_cls, price_data, name, **kwargs): a fresh strategy object
RunnerConstruct ==
    /\ UNCHANGED loader
    /\ runner.phase = "construct"
    /\ strategy' = StrategyOrder[runner.i]
    /\ params' \in RunAllKwargs(StrategyOrder[runner.i])
    /\ signals' = NoSignals
    /\ filtered_close' = NoFilteredClose
    /\ portfolio' = "none"
    /\ pc' = "idle"
    /\ caller' = "none"
    /\ sim_col' = 1
    /\ sim_bar' = 1
    /\ cash' = <<>>
    /\ position' = <<>>
    /\ orders' = <<>>
    /\ trades' = <<>>
    /\ value' = <<>>
    /\ runner' = [runner EXCEPT !.phase = "run_backtest"]
    /\ UNCHANGED <<close, volume, metrics>>

\* Backtester.run: equity_curve = self.strategy.run_backtest()
RunnerBacktest ==
    /\ UNCHANGED loader
    /\ runner.phase = "run_backtest"
    /\ ~GenerateRaises
    /\ BeginBacktest("none")
    /\ runner' = [runner EXCEPT !.phase = "simulating"]

\* generate_signals raises: the exception leaves run_backtest, Backtester.run
\* and the loop of run_all_strategies, and all_metrics is lost with it
RunnerRaise ==
    /\ UNCHANGED loader
    /\ runner.phase = "run_backtest"
    /\ GenerateRaises
    /\ runner' = [runner EXCEPT !.phase = "done", !.outcome = "raised"]
    /\ UNCHANGED <<data, signals, filtered_close, portfolio, pc, caller, simstate,
                   metrics>>

\* Backtester.run: metrics = self.strategy.get_metrics(), saved;
\* run_all_strategies: all_metrics[name] = metrics_df
RunnerMetrics ==
    /\ UNCHANGED loader
    /\ runner.phase = "simulating"
    /\ pc = "idle"
    /\ portfolio = "set"
    /\ metrics' \in PossibleMetrics
    /\ runner' = [runner EXCEPT
                     !.all_metrics = @ \cup {strategy},
                     !.i = @ + 1,
                     !.phase = IF runner.i = Len(StrategyOrder) THEN "return"
                               ELSE "construct"]
    /\ UNCHANGED <<data, signals, filtered_close, portfolio, pc, caller, simstate>>

\* return pd.concat(all_metrics, axis=1)
RunnerReturn ==
    /\ UNCHANGED loader
    /\ runner.phase = "return"
    /\ runner' = [runner EXCEPT !.phase = "done", !.outcome = "returned"]
    /\ UNCHANGED <<data, signals, filtered_close, portfolio, pc, caller, simstate,
                   metrics>>

NextRunAll ==
    \/ RunnerConstruct
    \/ RunnerBacktest
    \/ RunnerRaise
    \/ SimStep
    \/ SimFinish
    \/ RunnerMetrics
    \/ RunnerReturn

SpecRunAll == InitRunAll /\ [][NextRunAll]_vars

(***************************************************************************)
(* C12 as stated: an error about one symbol drops that symbol only; the    *)
(* run as a whole fails only when no symbol could be simulated, and when   *)
(* some symbol can, a metrics table is returned.                           *)
(***************************************************************************)
C12_PartialFailure ==
    runner.outcome = "raised" =>
       /\ runner.all_metrics = {}
       /\ Symbols \ params.exclude_symbols = {}

\* the run has failed as a whole, on a symbol the table does not have, after
\* a strategy had been run and its metrics collected, with every symbol of
\* the table fit to be simulated
C12_Witness ==
    /\ runner.outcome = "raised"
    /\ runner.all_metrics = {"atr"}
    /\ strategy = "vwap"
    /\ Symbols \ params.exclude_symbols = Symbols
    /\ portfolio = "none"

(***************************************************************************)
(* From a raw table to one backtest: preprocess_price_data, then a         *)
(* Backtester for one strategy class with the caller's kwargs, then the    *)
(* strategy object's methods.                                              *)
(***************************************************************************)
RawColumns == {"timestamp", "symbol", "open", "high", "low", "close", "volume"}
RawColumnChoices ==
    {RawColumns, RawColumns \ {"close"}, RawColumns \ {"volume"},
     RawColumns \ {"timestamp", "symbol"}}
\* required = {'timestamp', 'symbol', 'close'}
required == {"timestamp", "symbol", "close"}
\* the columns the groupby aggregates
aggregated == {"open", "high", "low", "close", "volume"}

\* preprocess_price_data: ValueError when a required column is missing,
\* KeyError from agg when one of the aggregated columns is
PreprocessError(columns) ==
    IF ~(required \subseteq columns) THEN "ValueError"
    ELSE IF ~(aggregated \subseteq columns) THEN "KeyError"
    ELSE "none"

\* fast and slow windows a caller may pass, good and bad
ConfigWindowChoices == WindowChoices \cup {<<2, 2>>, <<3, 1>>}
ConfigKwargs(kind) ==
    IF kind = "sma"
      THEN {[lookback |-> 0, holding_period |-> 0, fast_window |-> w[1],
             slow_window |-> w[2], exclude_symbols |-> {}] : w \in ConfigWindowChoices}
      ELSE ParamChoices(kind)

\* variant: any pair of windows is accepted
ConstructorRaises_never(kind, kwargs) == FALSE

\* SMACrossoverStrategy.__init__: if fast_window >= slow_window: raise ValueError
ConstructorRaises(kind, kwargs) ==
    kind = "sma" /\ kwargs.fast_window >= kwargs.slow_window

ConfigTables ==
    {names \in TableChoices : names["BTC"] \in {"rising", "pullback"}}

\* the strategy class and kwargs are the caller's; no object exists yet
InitConfig ==
    /\ WarmUpCoversRun
    /\ strategy \in {"atr", "sma", "vwap"}
    /\ params \in ConfigKwargs(strategy)
    /\ \E names \in ConfigTables :
          close = [s \in Symbols |-> CloseColumn(names[s])]
    /\ volume = [s \in Symbols |-> VolumeColumn("const")]
    /\ signals = NoSignals
    /\ filtered_close = NoFilteredClose
    /\ portfolio = "none"
    /\ pc = "none"
    /\ caller = "none"
    /\ sim_col = 1
    /\ sim_bar = 1
    /\ cash = <<>>
    /\ position = <<>>
    /\ orders = <<>>
    /\ trades = <<>>
    /\ value = <<>>
    /\ metrics = NoMetrics
    /\ loader = LoaderOff
    /\ \E cols \in RawColumnChoices :
          runner = [phase |-> "preprocess", i |-> 0, exclude |-> {},
                    all_metrics |-> {}, outcome |-> "running", columns |-> cols]

\* price_data = preprocess_price_data(df_raw.reset_index())
Preprocess ==
    /\ UNCHANGED loader
    /\ runner.phase = "preprocess"
    /\ runner' = IF PreprocessError(runner.columns) = "none"
                   THEN [runner EXCEPT !.phase = "construct"]
                   ELSE [runner EXCEPT !.phase = "done", !.outcome = "raised"]
    /\ UNCHANGED <<data, signals, filtered_close, portfolio, pc, caller, simstate,
                   metrics>>

\* Backtester.__init__: strategy_cls(price_data, **kwargs), which raises or
\* leaves a fresh object
Construct ==
    /\ UNCHANGED loader
    /\ runner.phase = "construct"
    /\ pc = "none"
    /\ IF ConstructorRaises(strategy, params)
         THEN /\ runner' = [runner EXCEPT !.phase = "done", !.outcome = "raised"]
              /\ UNCHANGED pc
         ELSE /\ runner' = [runner EXCEPT !.phase = "object"]
              /\ pc' = "idle"
    /\ UNCHANGED <<data, signals, filtered_close, portfolio, caller, simstate,
                   metrics>>

NextConfig ==
    \/ Preprocess
    \/ Construct
    \/ GenerateSignals
    \/ RunBacktest
    \/ SimStep
    \/ SimFinish
    \/ GetMetrics

SpecConfig == InitConfig /\ [][NextConfig]_vars

InvalidConfig ==
    \/ PreprocessError(runner.columns) # "none"
    \/ (strategy = "sma" /\ params.fast_window >= params.slow_window)

NothingProduced ==
    /\ ~signals.set
    /\ ~filtered_close.set
    /\ portfolio = "none"
    /\ pc = "none"
    /\ cash = <<>> /\ position = <<>> /\ orders = <<>> /\ trades = <<>>
    /\ value = <<>>
    /\ ~metrics.set

FeeLadder == <<QZero, Fees, QFrac(1, 10), QFrac(1, 2), QFrac(9, 10)>>

\* the pnl from_signals records for a trade that buys with cash_now at
\* entry_close and sells all at exit_close, were fees=fee passed to it
TradePnlAt(fee, cash_now, entry_close, exit_close) ==
    LET buy == BuyPrice(entry_close)
        sell == SellPrice(exit_close)
        size == BuySizeAt(cash_now, buy, fee)
    IN  QSub(QSub(QMul(size, QSub(sell, buy)), OrderFeesAt(size, buy, fee)),
             OrderFeesAt(size, sell, fee))

\* the cash an entry order was filled with: its cost plus its fees
CashSpent(order) == QAdd(QMul(order.size, order.price), order.fees)
\* column c has closed a trade on the bar just processed
JustClosed(c) ==
    /\ Len(value[c]) > 0
    /\ OrderAt(c, Len(value[c])) # {}
    /\ ~InPosition(c)

(***************************************************************************)
(* C14: for the trade a column has just closed, with its entry close, exit *)
(* close, slippage and cash fixed, the net pnl never rises along a rising  *)
(* ladder of fee rates in [0, 1), so that the net pnl under f2 is at most  *)
(* the net pnl under any f1 <= f2 of the ladder; at the code's fee rate    *)
(* the function is the pnl the engine recorded.                            *)
(***************************************************************************)
C14_FeeMonotone ==
    \A c \in DOMAIN value :
       JustClosed(c) =>
          LET tr == Last(trades[c])
              spent == CashSpent(orders[c][Len(orders[c]) - 1])
              pnl == [i \in DOMAIN FeeLadder |->
                         TradePnlAt(FeeLadder[i], spent, close[c][tr.entry_idx],
                                    close[c][tr.exit_idx])]
          IN  /\ \A i \in 1..(Len(FeeLadder) - 1) :
                    QLt(FeeLadder[i], FeeLadder[i + 1])
              /\ QEq(pnl[2], tr.pnl)
              /\ \A i \in 1..(Len(FeeLadder) - 1) : QLe(pnl[i + 1], pnl[i])

\* a trade closed with a gain at the code's fee rate that is a loss at a
\* higher one
C14_Witness ==
    \E c \in DOMAIN value :
       /\ JustClosed(c)
       /\ Last(trades[c]).pnl.s > 0
       /\ TradePnlAt(QFrac(1, 2), CashSpent(orders[c][Len(orders[c]) - 1]),
                     close[c][Last(trades[c]).entry_idx],
                     close[c][Last(trades[c]).exit_idx]).s < 0

(***************************************************************************)
(* The drawdown of the aggregate curve and the Max Drawdown get_metrics    *)
(* returns                                                                 *)
(***************************************************************************)
\* equity_curve.sum(axis=1) of a finished run
AggregateCurve == [t \in Bars |-> total_equity(t)]
NonDecreasing(curve) ==
    \A t \in 1..(Len(curve) - 1) : QLe(curve[t], curve[t + 1])
InPercentRange(q) == QLe(QZero, q) /\ QLe(q, QHundred)
ReturnedMaxDrawdown == metrics.stats["Max Drawdown"]

ColumnDrawdown(c) == MaxDrawdown(value[c])
NoColumnFalls == \A c \in DOMAIN value : ColumnDrawdown(c).s = 0

Row(ts, sym, px) == [timestamp |-> ts, symbol |-> sym, close |-> px]
EmptyFrame == <<>>
\* tables download_data can return when some symbol has data
DownloadTables ==
    { <<Row(1, "BTC", 3)>>,
      <<Row(1, "BTC", 3), Row(1, "ETH", 5)>>,
      <<Row(1, "BTC", 4), Row(2, "BTC", 4)>>,
      <<Row(1, "ETH", 4), Row(2, "ETH", 2)>> }
DownloadChoices == DownloadTables \cup {EmptyFrame}

\* number of values of the digest
DigestSpace == 5
SymbolCode(sym) == IF sym = "BTC" THEN 1 ELSE 2

\* df.to_csv(index=True): the fields of the rows, in row order
RECURSIVE to_csv(_)
to_csv(df) ==
    IF Len(df) = 0 THEN <<>>
    ELSE <<df[1].timestamp, SymbolCode(df[1].symbol), df[1].close>>
            \o to_csv(Tail(df))

\* hashlib.md5(text).hexdigest(): a digest of the whole text; two texts can
\* share it
RECURSIVE md5(_, _)
md5(text, h) ==
    IF Len(text) = 0 THEN h
    ELSE md5(Tail(text), (3 * h + text[1]) % DigestSpace)

compute_checksum(df) == md5(to_csv(df), 1)

\* contents of the two files
Absent == [kind |-> "absent"]
NotParquet == [kind |-> "bytes"]
\* pq.write_table(pa.Table.from_pandas(df), filepath): the table by columns
write_table(df) ==
    [kind |-> "parquet",
     timestamp |-> [i \in 1..Len(df) |-> df[i].timestamp],
     symbol |-> [i \in 1..Len(df) |-> df[i].symbol],
     close |-> [i \in 1..Len(df) |-> df[i].close]]
\* pd.read_parquet(filepath): the rows again
read_parquet(file) ==
    [i \in 1..Len(file.close) |->
        Row(file.timestamp[i], file.symbol[i], file.close[i])]
ChecksumText(digest, newline) ==
    [kind |-> "text", digest |-> digest, newline |-> newline]
\* f.read().strip()
strip(text) == text.digest

FileChoices == {Absent, NotParquet} \cup {write_table(df) : df \in DownloadTables}
Md5Choices ==
    {Absent} \cup {ChecksumText(d, nl) : d \in 0..(DigestSpace - 1), nl \in BOOLEAN}

Raised(exc) == [raised |-> exc, df |-> EmptyFrame]
Returned(df) == [raised |-> "none", df |-> df]

\* variant: the stored checksum is not compared
load_data_unverified(file, md5file) ==
    IF file.kind = "absent" THEN Raised("FileNotFoundError")
    ELSE IF file.kind # "parquet" THEN Raised("ArrowInvalid")
    ELSE IF md5file.kind = "absent" THEN Raised("FileNotFoundError")
    ELSE Returned(read_parquet(file))

\* load_data(filepath): the table, or the exception raised
load_data(file, md5file) ==
    IF file.kind = "absent" THEN Raised("FileNotFoundError")
    ELSE IF file.kind # "parquet" THEN Raised("ArrowInvalid")
    ELSE IF md5file.kind = "absent" THEN Raised("FileNotFoundError")
    ELSE IF compute_checksum(read_parquet(file)) # strip(md5file)
           THEN Raised("ValueError")
    ELSE Returned(read_parquet(file))

OnDisk == [file |-> loader.file, md5 |-> loader.md5]

\* the files as some earlier run or another program left them; without the
\* directory there is no file
InitCache ==
    /\ WarmUpCoversRun
    /\ strategy = "none"
    /\ params = [lookback |-> 0, holding_period |-> 0, fast_window |-> 0,
                 slow_window |-> 0, exclude_symbols |-> {}]
    /\ close = [s \in Symbols |-> CloseColumn("rising")]
    /\ volume = [s \in Symbols |-> VolumeColumn("const")]
    /\ FreshObject
    /\ runner = RunnerOff
    /\ \E dir \in BOOLEAN, file \in FileChoices, md5file \in Md5Choices :
          /\ ~dir => file = Absent /\ md5file = Absent
          /\ loader = [phase |-> "idle", dir |-> dir, file |-> file,
                       md5 |-> md5file, force_download |-> FALSE,
                       before |-> [file |-> file, md5 |-> md5file],
                       cache_read |-> FALSE, downloaded |-> FALSE,
                       df |-> EmptyFrame, source |-> "none",
                       result |-> Raised("none")]

CacheStep(next) ==
    /\ loader' = next
    /\ UNCHANGED <<data, signals, filtered_close, portfolio, pc, caller, simstate,
                   metrics, runner>>

\* a call get_data(start_date, end_date, filepath, top_n, force_download)
CallGetData ==
    /\ loader.phase \in {"idle", "returned", "raised"}
    /\ \E force \in BOOLEAN :
          CacheStep([loader EXCEPT
                        !.phase = "makedirs", !.force_download = force,
                        !.before = OnDisk, !.cache_read = FALSE,
                        !.downloaded = FALSE, !.df = EmptyFrame,
                        !.source = "none", !.result = Raised("none")])

\* os.makedirs(dirname, exist_ok=True);
\* if not force_download and os.path.exists(filepath)
Makedirs ==
    /\ loader.phase = "makedirs"
    /\ CacheStep([loader EXCEPT
                     !.dir = TRUE,
                     !.phase = IF ~loader.force_download /\ loader.file.kind # "absent"
                                 THEN "load" ELSE "download"])

\* try: return load_data(filepath)  except: pass
TryLoad ==
    /\ loader.phase = "load"
    /\ LET got == load_data(loader.file, loader.md5)
       IN  CacheStep(IF got.raised = "none"
                       THEN [loader EXCEPT !.cache_read = TRUE, !.result = got,
                                           !.source = "cache", !.phase = "returned"]
                       ELSE [loader EXCEPT !.cache_read = TRUE,
                                           !.phase = "download"])

\* df = download_data(...); if df.empty: return df
Download ==
    /\ loader.phase = "download"
    /\ \E df \in DownloadChoices :
          CacheStep(IF Len(df) = 0
                      THEN [loader EXCEPT !.downloaded = TRUE, !.df = df,
                                          !.result = Returned(df),
                                          !.source = "download",
                                          !.phase = "returned"]
                      ELSE [loader EXCEPT !.downloaded = TRUE, !.df = df,
                                          !.phase = "write_table"])

\* download_data raises (get_top_btc_pairs has no handler around its request)
DownloadRaises ==
    /\ loader.phase = "download"
    /\ CacheStep([loader EXCEPT !.downloaded = TRUE,
                                !.result = Raised("RequestException"),
                                !.phase = "raised"])

\* save_data: pq.write_table(table, filepath, compression='snappy')
SaveWriteTable ==
    /\ loader.phase = "write_table"
    /\ CacheStep([loader EXCEPT !.file = write_table(loader.df),
                                !.phase = "write_md5"])

\* save_data: checksum = compute_checksum(df); f.write(checksum)
SaveWriteChecksum ==
    /\ loader.phase = "write_md5"
    /\ CacheStep([loader EXCEPT
                     !.md5 = ChecksumText(compute_checksum(loader.df), FALSE),
                     !.phase = "saved"])

\* return df
ReturnDownloaded ==
    /\ loader.phase = "saved"
    /\ CacheStep([loader EXCEPT !.result = Returned(loader.df),
                                !.source = "download", !.phase = "returned"])

NextCache ==
    \/ CallGetData
    \/ Makedirs
    \/ TryLoad
    \/ Download
    \/ DownloadRaises
    \/ SaveWriteTable
    \/ SaveWriteChecksum
    \/ ReturnDownloaded

SpecCache == InitCache /\ [][NextCache]_vars

\* the data file and its .md5 file both exist and the checksum recomputed
\* from the loaded table is the stored one
CacheValid(disk) ==
    /\ disk.file.kind = "parquet"
    /\ disk.md5.kind = "text"
    /\ compute_checksum(read_parquet(disk.file)) = strip(disk.md5)

InGetData == loader.phase \notin {"off", "idle"}

(***************************************************************************)
(* C16: get_data returns the cached table only when force_download is      *)
(* False, both files exist and the recomputed checksum is the stored one;  *)
(* with a missing checksum file, an unreadable file or a mismatch the      *)
(* value returned comes from download_data; with force_download=True the   *)
(* cache is never read; the two files change only after a non-empty        *)
(* download, so an empty download leaves them as they were; and once       *)
(* save_data has completed, load_data on the same path returns the saved   *)
(* table.                                                                  *)
(***************************************************************************)
C16_CacheIntegrity ==
    InGetData =>
       /\ loader.source = "cache" =>
             /\ ~loader.force_download
             /\ CacheValid(loader.before)
             /\ loader.result = Returned(read_parquet(loader.before.file))
             /\ ~loader.downloaded
       /\ (loader.phase = "returned" /\ ~CacheValid(loader.before)) =>
             loader.source = "download" /\ loader.downloaded
       /\ loader.force_download => ~loader.cache_read
       /\ OnDisk # loader.before =>
             loader.downloaded /\ Len(loader.df) > 0
       /\ (loader.phase = "returned" /\ loader.source = "download"
             /\ Len(loader.result.df) = 0) => OnDisk = loader.before
       /\ loader.phase = "saved" =>
             load_data(loader.file, loader.md5) = Returned(loader.df)

\* a stored checksum that does not match: the call has downloaded, saved and
\* returned another table
C16_Witness ==
    /\ loader.phase = "returned"
    /\ ~loader.force_download
    /\ loader.before.file.kind = "parquet"
    /\ loader.before.md5.kind = "text"
    /\ ~CacheValid(loader.before)
    /\ loader.cache_read
    /\ loader.source = "download"
    /\ Len(loader.result.df) > 0
    /\ CacheValid(OnDisk)

(***************************************************************************)
(* Lazy initialisation of the strategy object                              *)
(***************************************************************************)
\* from_signals is running, or has run, on signals that were set, and the
\* statistics exist only once a portfolio does
OrderingState ==
    /\ signals.set <=> filtered_close.set
    /\ signals.set => DOMAIN signals.entries = filtered_close.columns
    /\ (pc = "sim" \/ portfolio = "set") =>
          /\ signals.set
          /\ DOMAIN value = filtered_close.columns
    /\ metrics.set => portfolio = "set"
    /\ caller = "get_metrics" => pc = "sim"
    \* the finished portfolio is the one from_signals builds from the signals
    \* and the close frame the object holds now
    /\ Finished =>
          /\ signals = GeneratedSignals
          /\ filtered_close = GeneratedFilteredClose
          /\ Books = OnePass(NumBars * Len(Columns))

\* what a step that enters from_signals, or returns statistics, may do
OrderingStep ==
    /\ (pc = "idle" /\ pc' = "sim") =>
          /\ signals.set => UNCHANGED <<signals, filtered_close>>
          /\ ~signals.set => /\ signals' = GeneratedSignals
                             /\ filtered_close' = GeneratedFilteredClose
          /\ caller' = "get_metrics" => portfolio = "none"
    /\ (pc = "idle" /\ portfolio = "set" /\ metrics' # metrics) =>
          UNCHANGED <<signals, filtered_close, portfolio, pc, simstate>>
    /\ (pc = "sim" /\ pc' = "idle" /\ metrics' # metrics) =>
          caller = "get_metrics"

(***************************************************************************)
(* C17: in any sequence of calls on a fresh strategy object, from_signals  *)
(* never starts before signals and filtered_close are set, and             *)
(* run_backtest generates them exactly when signals is None; get_metrics   *)
(* never reads statistics before the portfolio is set, and runs the        *)
(* backtest exactly when portfolio is None; and the finished portfolio is  *)
(* the one built from the object's current signals and the filtered_close  *)
(* of the same generate_signals call.                                      *)
(***************************************************************************)
C17_LazyOrdering == [](OrderingState) /\ [][OrderingStep]_vars

\* get_metrics on an object that had no portfolio and no signals: it is now
\* inside from_signals, past the first bar, on signals that are set
C17_Witness ==
    /\ pc = "sim"
    /\ caller = "get_metrics"
    /\ portfolio = "none"
    /\ ~metrics.set
    /\ signals.set
    /\ sim_bar > 1

=============================================================================
